---- MODULE Spec2Model ----
(***************************************************************************)
(* A model of AlibabaScraper (src/alibaba_scraper.py): the scoped browser  *)
(* session (__aenter__ / __aexit__), the two public searches, the result   *)
(* list parser and the detail page extractor.  Every await on the browser  *)
(* driver is one step that either succeeds or raises.                      *)
(*                                                                         *)
(* Text is a sequence of one-character strings, so that prefix tests and   *)
(* concatenation are computed as Python computes them.                     *)
(***************************************************************************)
EXTENDS Naturals, Sequences, FiniteSets

\* ---------------------------------------------------------------- bounds

\* The longest result list a results page of the model holds.
MaxItems == 7

\* The longest free tail of a link value fed to URL normalization.
MaxUrlLen == 3

\* `if i >= 5` of the result loop.
Cap == 5

\* ------------------------------------------------------------------ text

StartsWith(s, p) == Len(s) >= Len(p) /\ SubSeq(s, 1, Len(p)) = p

Digit == <<"0", "1", "2", "3", "4", "5", "6", "7", "8", "9">>

\* The decimal digit of a document index 0..9.
DigitOf(i) == Digit[i + 1]

Http == <<"h", "t", "t", "p">>

HttpColon == <<"h", "t", "t", "p", "s", ":">>

\* "https://www.alibaba.com"
SiteOrigin ==
    <<"h", "t", "t", "p", "s", ":", "/", "/", "w", "w", "w", ".",
      "a", "l", "i", "b", "a", "b", "a", ".", "c", "o", "m">>

\* An attribute value as get_attribute returns it: None, or a string.
NoneAttr == [present |-> FALSE, text |-> <<>>]

Attr(s) == [present |-> TRUE, text |-> s]

\* Python truthiness of an Optional[str]: None and "" are falsy.
Truthy(a) == a.present /\ a.text # <<>>

\* Lines 158-159: the two prefix rewrites, in the code's order.
NormalizeUrl(product_url) ==
    IF StartsWith(product_url, <<"/", "/">>) THEN HttpColon \o product_url
    ELSE IF StartsWith(product_url, <<"/">>) THEN SiteOrigin \o product_url
    ELSE product_url

\* Line 161: the format test applied after the rewrite.
UrlFormatOk(product_url) == StartsWith(product_url, Http)

\* Lines 154-163 as one decision: the item is skipped, or kept with a URL.
LinkDecision(href) ==
    IF ~Truthy(href) THEN [keep |-> FALSE, product_url |-> <<>>]
    ELSE LET u == NormalizeUrl(href.text)
         IN  IF ~UrlFormatOk(u) THEN [keep |-> FALSE, product_url |-> u]
             ELSE [keep |-> TRUE, product_url |-> u]

\* --------------------------------------------------------- product records

\* The "N/A" sentinel of lines 92-93 and 171-172.
NA == <<"N", "/", "A">>

\* What product_page.content() returns: the page's markup, never "N/A".
Markup == <<"<", "h", "t", "m", "l", ">">>

\* The extractor's record begun with a "title" key of its own.
DetailsInitWithTitle(product_url) ==
    [url |-> product_url, title |-> NA, full_description |-> NA, images |-> <<>>,
     html_content |-> NA, price_per_unit |-> NA, company_years |-> NA,
     verified_supplier |-> NA]

\* Lines 90-94: the record the detail extractor starts from.
DetailsInit(product_url) ==
    [url |-> product_url, full_description |-> NA, images |-> <<>>,
     html_content |-> NA, price_per_unit |-> NA, company_years |-> NA,
     verified_supplier |-> NA]

\* Lines 166-173: the summary record of a result item.
ProductSummary(t, c, product_url) ==
    [title |-> t, company_summary |-> c, product_page_url |-> product_url,
     full_description |-> NA, images |-> <<>>, html_content |-> NA,
     price_per_unit |-> NA, company_years |-> NA, verified_supplier |-> NA]

\* dict.update (line 178): the keys of d are added to or overwritten in s.
Update(s, d) ==
    [k \in (DOMAIN s) \cup (DOMAIN d) |-> IF k \in DOMAIN d THEN d[k] ELSE s[k]]

\* ----------------------------------------------------------- results pages

TitleOf(i) == <<"t", DigitOf(i)>>

CompanyOf(i) == <<"c", DigitOf(i)>>

\* "http://a/<i>": an absolute link, distinct per document index.
AbsUrl(i) == <<"h", "t", "t", "p", ":", "/", "/", "a", "/", DigitOf(i)>>

\* "/p<i>": a root-relative link.
RootRelUrl(i) == <<"/", "p", DigitOf(i)>>

\* "p<i>": a relative link, which is no absolute address after the rewrite.
RelUrl(i) == <<"p", DigitOf(i)>>

\* "httpa<i>": a relative link whose first characters happen to be "http".
HttpLikeUrl(i) == <<"h", "t", "t", "p", "a", DigitOf(i)>>

\* The result item at document index i with the given link attribute.
Item(i, href) == [title |-> TitleOf(i), company_summary |-> CompanyOf(i), href |-> href]

WellFormed(i) == Item(i, Attr(AbsUrl(i)))

\* The link attributes by which an item departs from a well-formed one.
OddLinks(i) == {NoneAttr, Attr(RootRelUrl(i)), Attr(RelUrl(i)), Attr(HttpLikeUrl(i))}

\* Seven items: 0-4 well-formed, 5 without link attribute, 6 root-relative.
ScenarioPage ==
    [j \in 1..7 |-> IF j <= 5 THEN WellFormed(j - 1)
                    ELSE IF j = 6 THEN Item(5, NoneAttr)
                    ELSE Item(6, Attr(RootRelUrl(6)))]

\* The results pages of the model: 1..MaxItems items in document order, all
\* well-formed or one of them with an odd link; and the seven-item scenario.
Pages ==
    {[j \in 1..n |-> WellFormed(j - 1)] : n \in 1..MaxItems}
    \cup UNION {UNION {{[j \in 1..n |-> IF j = k THEN Item(j - 1, h) ELSE WellFormed(j - 1)]
                          : h \in OddLinks(k - 1)} : k \in 1..n} : n \in 1..MaxItems}
    \cup {ScenarioPage}

\* The link values fed to URL normalization on its own: a known prefix
\* followed by every tail of at most MaxUrlLen characters.
UrlAlphabet == {"/", ":", "h", "a", "s"}

RECURSIVE Tails(_)
Tails(n) ==
    IF n = 0 THEN {<<>>}
    ELSE LET shorter == Tails(n - 1)
         IN  shorter \cup {<<c>> \o t : c \in UrlAlphabet, t \in {x \in shorter : Len(x) = n - 1}}

UrlPrefixes ==
    {<<>>, Http, <<"h", "t", "t", "p", ":", "/", "/">>,
     <<"h", "t", "t", "p", "s", ":", "/", "/">>}

UrlInputs == {NoneAttr} \cup {Attr(p \o t) : p \in UrlPrefixes, t \in Tails(MaxUrlLen)}

\* ----------------------------------------------------------------- state

VARIABLES
    _playwright,      \* self._playwright: "None" or "set"
    _browser,         \* self._browser: "None" or "set"
    driver,           \* the driver process: "not_started", "running", "stopped"
    browser_proc,     \* the browser process: "not_launched", "running", "terminated"
    scope,            \* where the `async with` block stands
    call,             \* the public operation in progress: "none", "text", "image"
    pc,               \* the await the operation in progress stands at
    page,             \* the results page of the call: "None", "open", "closed"
    product_page,     \* the detail page of the item: "None", "open", "closed"
    product_elements, \* what locator(product_item).all() returned
    i,                \* the loop index of enumerate(product_elements)
    title,            \* locals of the loop body
    company_summary,
    product_url,
    details,          \* the detail extractor's record
    products_data,    \* the list the parser builds
    inflight,         \* what is on its way out of the current frame
    ret,              \* what the last public call gave its caller
    raised,           \* document indices whose loop body raised (history)
    processed,        \* document indices whose loop body was entered (history)
    timed_out,        \* wait_for_selector timed out in this call (history)
    popup_log,        \* probes and clicks of the dismisser's current run (history)
    steps,            \* the steps of the search that completed, in order (history)
    last_call,        \* the public operation called last (history)
    open_pages,       \* the pages open in the browser
    href_in,          \* URL normalization on its own: the link value, and
    link_out          \* the decision taken on it

vars ==
    <<_playwright, _browser, driver, browser_proc, scope, call, pc, page,
      product_page, product_elements, i, title, company_summary, product_url,
      details, products_data, inflight, ret, raised, processed, timed_out, popup_log, steps, last_call,
      open_pages, href_in, link_out>>

session == <<_playwright, _browser, driver, browser_proc, scope>>

locals == <<product_elements, i, title, company_summary, product_url, details, products_data>>

history == <<raised, processed, timed_out>>

urlvars == <<href_in, link_out>>

\* The results page of a call, and the detail page of the item at index k.
ResultsPage == <<"results", 0>>

DetailPage(k) == <<"detail", k>>

Nothing == [kind |-> "none", value |-> <<>>]

Returning(v) == [kind |-> "return", value |-> v]

Raising(e) == [kind |-> "raise", value |-> <<e>>]

NoLink == [done |-> FALSE, keep |-> FALSE, product_url |-> <<>>]

\* Line 26-29: a constructed scraper, no call made, nothing launched.
Init ==
    /\ _playwright = "None"
    /\ _browser = "None"
    /\ driver = "not_started"
    /\ browser_proc = "not_launched"
    /\ scope = "constructed"
    /\ call = "none"
    /\ pc = "idle"
    /\ page = "None"
    /\ product_page = "None"
    /\ product_elements = <<>>
    /\ i = 0
    /\ title = <<>>
    /\ company_summary = <<>>
    /\ product_url = <<>>
    /\ details = DetailsInit(<<>>)
    /\ products_data = <<>>
    /\ inflight = Nothing
    /\ ret = Nothing
    /\ raised = {}
    /\ processed = {}
    /\ timed_out = FALSE
    /\ popup_log = <<>>
    /\ steps = <<>>
    /\ last_call = "none"
    /\ open_pages = {}
    /\ href_in = NoneAttr
    /\ link_out = NoLink

\* A frame whose locals are not bound yet.
FreshFrame ==
    /\ product_elements' = <<>>
    /\ i' = 0
    /\ title' = <<>>
    /\ company_summary' = <<>>
    /\ product_url' = <<>>
    /\ details' = DetailsInit(<<>>)
    /\ products_data' = <<>>
    /\ raised' = {}
    /\ processed' = {}
    /\ timed_out' = FALSE
    /\ popup_log' = <<>>
    /\ steps' = <<>>

\* -------------------------------------------------------- the session scope

\* Line 49: async_playwright().start().  When __aenter__ raises, the block
\* is not entered and __aexit__ is not called.
AenterStart ==
    /\ scope = "constructed" /\ pc = "idle"
    /\ \E ok \in BOOLEAN :
          IF ok THEN /\ _playwright' = "set"
                     /\ driver' = "running"
                     /\ scope' = "aenter_launch"
          ELSE /\ scope' = "ended"
               /\ UNCHANGED <<_playwright, driver>>
    /\ ret' = Nothing
    /\ UNCHANGED <<_browser, browser_proc, call, pc, page, product_page, locals,
                   inflight, history, urlvars,
                   popup_log, steps, last_call, open_pages>>

\* Line 50: chromium.launch().
AenterLaunch ==
    /\ scope = "aenter_launch"
    /\ \E ok \in BOOLEAN :
          IF ok THEN /\ _browser' = "set"
                     /\ browser_proc' = "running"
                     /\ scope' = "body"
          ELSE /\ scope' = "ended"
               /\ UNCHANGED <<_browser, browser_proc>>
    /\ UNCHANGED <<_playwright, driver, call, pc, page, product_page, locals,
                   inflight, ret, history, urlvars,
                   popup_log, steps, last_call, open_pages>>

\* The block is left, normally or by an exception of its body: either way
\* __aexit__ is called, and the caller's result goes out of scope.
BlockExit ==
    /\ scope = "body" /\ pc = "idle"
    /\ scope' = "aexit_close"
    /\ ret' = Nothing
    /\ page' = "None"
    /\ product_page' = "None"
    /\ FreshFrame
    /\ last_call' = "none"
    /\ open_pages' = {}
    /\ UNCHANGED <<_playwright, _browser, driver, browser_proc, call, pc,
                   inflight, urlvars>>

\* Lines 55-57: browser.close().  A close that raises reports a browser that
\* is already gone; the exception leaves __aexit__ at once.
AexitClose ==
    /\ scope = "aexit_close"
    /\ open_pages' = IF _browser = "set" THEN {} ELSE open_pages
    /\ IF _browser = "set"
       THEN \E ok \in BOOLEAN :
               /\ browser_proc' = "terminated"
               /\ scope' = IF ok THEN "aexit_stop" ELSE "ended"
       ELSE /\ scope' = "aexit_stop"
            /\ UNCHANGED browser_proc
    /\ UNCHANGED <<_playwright, _browser, driver, call, pc, page, product_page,
                   locals, inflight, ret, history, urlvars,
                   popup_log, steps, last_call>>

\* Lines 58-61: playwright.stop(), then both fields are cleared.
AexitStop ==
    /\ scope = "aexit_stop"
    /\ driver' = IF _playwright = "set" THEN "stopped" ELSE driver
    /\ _browser' = "None"
    /\ _playwright' = "None"
    /\ scope' = "ended"
    /\ UNCHANGED <<browser_proc, call, pc, page, product_page, locals, inflight,
                   ret, history, urlvars,
                   popup_log, steps, last_call, open_pages>>

\* ------------------------------------------------------ the public searches

\* Lines 63-66: what _get_new_page does when the driver answers ok or not.
\* new_page() on a browser that is gone raises the driver's error.
GetNewPage(ok) ==
    IF _browser = "None" THEN "RuntimeError"
    ELSE IF ok /\ browser_proc = "running" THEN "page"
    ELSE "Error"

\* Lines 193 and 226: the call begins with _get_new_page, outside its try.
SearchStart(kind) ==
    /\ pc = "idle" /\ scope \in {"constructed", "body", "ended"}
    /\ FreshFrame
    /\ last_call' = kind
    /\ product_page' = "None"
    /\ inflight' = Nothing
    /\ \E ok \in BOOLEAN :
          LET got == GetNewPage(ok)
          IN  IF got = "page"
              THEN /\ page' = "open"
                   /\ open_pages' = open_pages \cup {ResultsPage}
                   /\ call' = kind
                   /\ pc' = "goto"
                   /\ ret' = Nothing
              ELSE /\ page' = "None"
                   /\ UNCHANGED open_pages
                   /\ call' = "none"
                   /\ pc' = "idle"
                   /\ ret' = Raising(got)
    /\ UNCHANGED <<session, urlvars>>

search_by_text == SearchStart("text")

search_by_image == SearchStart("image")

\* One await inside the try of a search: on to `next`, or to the handler.
\* The popup log is that of the dismisser's last run: it is dropped by the
\* step that follows the dismisser.
SearchAwait(at, next) ==
    /\ pc = at
    /\ \E ok \in BOOLEAN :
          /\ pc' = IF ok THEN next ELSE "search_except"
          /\ steps' = IF ok THEN Append(steps, at) ELSE steps
    /\ popup_log' = <<>>
    /\ UNCHANGED <<session, call, page, product_page, locals, inflight, ret,
                   history, urlvars,
                   last_call, open_pages>>

\* Lines 195 and 228: page.goto(site root).
Goto == SearchAwait("goto", "popup_consent_visible")

\* Line 235: locator(search bar).fill(query).
Fill == call = "text" /\ SearchAwait("fill", "click")

\* The click followed at once by the parser, with no settle wait.
ClickSkipsSettle == call = "text" /\ SearchAwait("click", "parse_wait")

\* Line 237: locator(search button).click().
Click == call = "text" /\ SearchAwait("click", "settle")

\* Lines 203-204: expect_file_chooser around the click on the camera icon.
CameraClick == call = "image" /\ SearchAwait("camera", "file_chooser")

\* Line 205: await fc_info.value.
FileChooser == call = "image" /\ SearchAwait("file_chooser", "set_files")

\* Line 206: file_chooser.set_files(image_path).
SetFiles == call = "image" /\ SearchAwait("set_files", "settle")

\* Lines 213 and 243: page.wait_for_timeout, the settle wait; then the
\* parser is entered (lines 216 and 250).
Settle == SearchAwait("settle", "parse_wait")

\* Lines 218-221 and 252-255: the handler of a search takes a screenshot and
\* returns []; a screenshot that raises leaves the handler by that exception.
SearchExcept ==
    /\ pc = "search_except"
    /\ \E ok \in BOOLEAN :
          inflight' = IF ok THEN Returning(<<>>) ELSE Raising("Error")
    /\ pc' = "search_finally"
    /\ UNCHANGED <<session, call, page, product_page, locals, ret, history, urlvars,
                   popup_log, steps, last_call, open_pages>>

\* The close placed at the end of the try block, not in a finally: it is
\* skipped when an exception is on its way out.
SearchFinallyLeaks ==
    /\ pc = "search_finally"
    /\ IF inflight.kind = "raise"
       THEN /\ ret' = inflight
            /\ UNCHANGED <<page, open_pages>>
       ELSE /\ page' = "closed"
            /\ open_pages' = open_pages \ {ResultsPage}
            /\ \E ok \in BOOLEAN :
                  ret' = IF ok THEN inflight ELSE Raising("Error")
    /\ inflight' = Nothing
    /\ call' = "none"
    /\ pc' = "idle"
    /\ UNCHANGED <<session, product_page, locals, history, urlvars,
                   popup_log, steps, last_call>>

\* Lines 222-223 and 256-257: finally page.close(); a close that raises
\* replaces what was on its way out.  A close that raises reports a page that
\* is already gone.
SearchFinally ==
    /\ pc = "search_finally"
    /\ page' = "closed"
    /\ open_pages' = open_pages \ {ResultsPage}
    /\ \E ok \in BOOLEAN :
          ret' = IF ok THEN inflight ELSE Raising("Error")
    /\ inflight' = Nothing
    /\ call' = "none"
    /\ pc' = "idle"
    /\ UNCHANGED <<session, product_page, locals, history, urlvars,
                   popup_log, steps, last_call>>

\* ------------------------------------------------------ the popup dismisser

\* Where _close_initial_popups returns to: line 99, 196 or 229.
AfterPopups ==
    IF product_page = "open" THEN "detail_content"
    ELSE IF call = "text" THEN "fill"
    ELSE "camera"

PopupPcs ==
    {"popup_consent_visible", "popup_consent_click", "popup_close_visible",
     "popup_close_click"}

\* One await of the dismisser: what it did is logged, and the dismisser goes
\* on to `next`; when that leaves the dismisser run by a search (lines 196,
\* 229), the search has completed its step "popups".
PopupStep(event, next) ==
    /\ pc' = next
    /\ popup_log' = Append(popup_log, event)
    /\ steps' = IF next \notin PopupPcs /\ product_page # "open"
                THEN Append(steps, "popups") ELSE steps

\* Line 75: is_visible(consent).  An exception ends the dismisser (line 81).
PopupConsentVisible ==
    /\ pc = "popup_consent_visible"
    /\ \E seen \in {"visible", "hidden", "error"} :
          PopupStep(<<"consent", seen>>,
                    IF seen = "visible" THEN "popup_consent_click"
                    ELSE IF seen = "hidden" THEN "popup_close_visible"
                    ELSE AfterPopups)
    /\ UNCHANGED <<session, call, page, product_page, locals, inflight, ret,
                   history, urlvars,
                   last_call, open_pages>>

\* The click on the consent control outside the try: its exception reaches
\* the handler of the caller.
PopupConsentClickRaises ==
    /\ pc = "popup_consent_click"
    /\ \E ok \in BOOLEAN :
          PopupStep(<<"click_consent", IF ok THEN "ok" ELSE "error">>,
                    IF ok THEN AfterPopups
                    ELSE IF product_page = "open" THEN "detail_except"
                    ELSE "search_except")
    /\ UNCHANGED <<session, call, page, product_page, locals, inflight, ret,
                   history, urlvars,
                   last_call, open_pages>>

\* `if` in place of `elif` at line 78: the close control is probed after the
\* consent control was clicked.
PopupConsentClickFallsThrough ==
    /\ pc = "popup_consent_click"
    /\ \E ok \in BOOLEAN :
          PopupStep(<<"click_consent", IF ok THEN "ok" ELSE "error">>,
                    IF ok THEN "popup_close_visible" ELSE AfterPopups)
    /\ UNCHANGED <<session, call, page, product_page, locals, inflight, ret,
                   history, urlvars,
                   last_call, open_pages>>

\* Line 76: click(consent); its exception is swallowed at line 81.
PopupConsentClick ==
    /\ pc = "popup_consent_click"
    /\ \E ok \in BOOLEAN :
          PopupStep(<<"click_consent", IF ok THEN "ok" ELSE "error">>, AfterPopups)
    /\ UNCHANGED <<session, call, page, product_page, locals, inflight, ret,
                   history, urlvars,
                   last_call, open_pages>>

\* Line 78: elif is_visible(close).
PopupCloseVisible ==
    /\ pc = "popup_close_visible"
    /\ \E seen \in {"visible", "hidden", "error"} :
          PopupStep(<<"close", seen>>,
                    IF seen = "visible" THEN "popup_close_click" ELSE AfterPopups)
    /\ UNCHANGED <<session, call, page, product_page, locals, inflight, ret,
                   history, urlvars,
                   last_call, open_pages>>

\* Line 79: click(close).
PopupCloseClick ==
    /\ pc = "popup_close_click"
    /\ \E ok \in BOOLEAN :
          PopupStep(<<"click_close", IF ok THEN "ok" ELSE "error">>, AfterPopups)
    /\ UNCHANGED <<session, call, page, product_page, locals, inflight, ret,
                   history, urlvars,
                   last_call, open_pages>>

\* --------------------------------------------------- the result list parser

\* The limit tested one element late.
CapReachedLate(k) == k > Cap

\* Line 145: the development-time limit of the loop.
CapReached(k) == k >= Cap

\* Line 176: self._browser and self._browser.contexts.  browser.new_page()
\* gives the results page a context of its own, listed while the page is open.
ContextAvailable == _browser = "set" /\ page = "open"

\* Line 135: wait_for_selector(product_item).
ParseWait ==
    /\ pc = "parse_wait"
    /\ \E ok \in BOOLEAN :
          /\ pc' = IF ok THEN "parse_all" ELSE "parse_screenshot"
          /\ timed_out' = ~ok
    /\ steps' = Append(steps, "parse")
    /\ UNCHANGED <<session, call, page, product_page, locals, inflight, ret,
                   raised, processed, urlvars,
                   popup_log, last_call, open_pages>>

\* Lines 136-139: no item appeared: screenshot, then return [], which the
\* search returns in turn.  A screenshot that raises leaves the parser and
\* reaches the handler of the search.
ParseScreenshot ==
    /\ pc = "parse_screenshot"
    /\ \E ok \in BOOLEAN :
          IF ok THEN /\ inflight' = Returning(<<>>)
                     /\ pc' = "search_finally"
          ELSE /\ pc' = "search_except"
               /\ UNCHANGED inflight
    /\ UNCHANGED <<session, call, page, product_page, locals, ret, history, urlvars,
                   popup_log, steps, last_call, open_pages>>

\* Line 141: locator(product_item).all(), outside the per-item try.
ParseAll ==
    /\ pc = "parse_all"
    /\ \E ok \in BOOLEAN :
          IF ok THEN /\ \E pg \in Pages : product_elements' = pg
                     /\ pc' = "loop_head"
          ELSE /\ pc' = "search_except"
               /\ UNCHANGED product_elements
    /\ UNCHANGED <<session, call, page, product_page, i, title, company_summary,
                   product_url, details, products_data, inflight, ret, history,
                   urlvars,
                   popup_log, steps, last_call, open_pages>>

\* Lines 144-147 and 190: the loop test; past the last element or at the
\* cap the parser returns products_data, which the search returns in turn.
LoopHead ==
    /\ pc = "loop_head"
    /\ IF i >= Len(product_elements) \/ CapReached(i)
       THEN /\ inflight' = Returning(products_data)
            /\ pc' = "search_finally"
            /\ UNCHANGED processed
       ELSE /\ pc' = "item_title"
            /\ processed' = processed \cup {i}
            /\ UNCHANGED inflight
    /\ title' = <<>>
    /\ company_summary' = <<>>
    /\ product_url' = <<>>
    /\ details' = DetailsInit(<<>>)
    /\ product_page' = "None"
    /\ UNCHANGED <<session, call, page, product_elements, i, products_data, ret,
                   raised, timed_out, urlvars,
                   popup_log, steps, last_call, open_pages>>

\* Line 149: text_content of the title.
ItemTitle ==
    /\ pc = "item_title"
    /\ \E ok \in BOOLEAN :
          IF ok THEN /\ title' = product_elements[i + 1].title
                     /\ pc' = "item_company"
          ELSE /\ pc' = "item_except"
               /\ UNCHANGED title
    /\ UNCHANGED <<session, call, page, product_page, product_elements, i,
                   company_summary, product_url, details, products_data, inflight,
                   ret, history, urlvars,
                   popup_log, steps, last_call, open_pages>>

\* Line 150: text_content of the company summary.
ItemCompany ==
    /\ pc = "item_company"
    /\ \E ok \in BOOLEAN :
          IF ok THEN /\ company_summary' = product_elements[i + 1].company_summary
                     /\ pc' = "item_href"
          ELSE /\ pc' = "item_except"
               /\ UNCHANGED company_summary
    /\ UNCHANGED <<session, call, page, product_page, product_elements, i, title,
                   product_url, details, products_data, inflight, ret, history,
                   urlvars,
                   popup_log, steps, last_call, open_pages>>

\* Lines 152-177: get_attribute("href"), then without a further await the
\* link decision, the summary record and the entry into the detail extractor
\* (lines 89-94) up to its first await.
ItemHref ==
    /\ pc = "item_href"
    /\ \E ok \in BOOLEAN :
          IF ~ok
          THEN /\ pc' = "item_except"
               /\ UNCHANGED <<i, product_url, details, products_data>>
          ELSE LET d == LinkDecision(product_elements[i + 1].href)
               IN  IF ~d.keep
                   THEN /\ i' = i + 1
                        /\ pc' = "loop_head"
                        /\ UNCHANGED <<product_url, details, products_data>>
                   ELSE /\ product_url' = d.product_url
                        /\ IF ContextAvailable
                           THEN /\ details' = DetailsInit(d.product_url)
                                /\ pc' = "detail_new_page"
                                /\ UNCHANGED <<i, products_data>>
                           ELSE /\ products_data' =
                                      Append(products_data,
                                             ProductSummary(title, company_summary, d.product_url))
                                /\ i' = i + 1
                                /\ pc' = "loop_head"
                                /\ UNCHANGED details
    /\ UNCHANGED <<session, call, page, product_page, product_elements, title,
                   company_summary, inflight, ret, history, urlvars,
                   popup_log, steps, last_call, open_pages>>

\* Lines 178-183: merge the details into the summary and append it.
ItemAppend ==
    /\ pc = "item_append"
    /\ products_data' =
          Append(products_data,
                 Update(ProductSummary(title, company_summary, product_url), details))
    /\ i' = i + 1
    /\ pc' = "loop_head"
    /\ UNCHANGED <<session, call, page, product_page, product_elements, title,
                   company_summary, product_url, details, inflight, ret, history,
                   urlvars,
                   popup_log, steps, last_call, open_pages>>

\* The exception of an item let through to the handler of the search.
ItemExceptAborts ==
    /\ pc = "item_except"
    /\ raised' = raised \cup {i}
    /\ pc' = "search_except"
    /\ UNCHANGED <<session, call, page, product_page, locals, inflight, ret,
                   processed, timed_out, urlvars,
                   popup_log, steps, last_call, open_pages>>

\* Lines 185-186: the per-item handler logs and the loop goes on.
ItemExcept ==
    /\ pc = "item_except"
    /\ raised' = raised \cup {i}
    /\ i' = i + 1
    /\ pc' = "loop_head"
    /\ UNCHANGED <<session, call, page, product_page, product_elements, title,
                   company_summary, product_url, details, products_data, inflight,
                   ret, processed, timed_out, urlvars,
                   popup_log, steps, last_call, open_pages>>

\* -------------------------------------------------- the detail page extractor

\* Line 96: context.new_page().
DetailNewPage ==
    /\ pc = "detail_new_page"
    /\ \E ok \in BOOLEAN :
          IF ok THEN /\ product_page' = "open"
                     /\ open_pages' = open_pages \cup {DetailPage(i)}
                     /\ pc' = "detail_goto"
          ELSE /\ pc' = "detail_except"
               /\ UNCHANGED <<product_page, open_pages>>
    /\ UNCHANGED <<session, call, page, locals, inflight, ret, history, urlvars,
                   popup_log, steps, last_call>>

\* Lines 98-99: product_page.goto(product_url), then the popup dismisser.
DetailGoto ==
    /\ pc = "detail_goto"
    /\ \E ok \in BOOLEAN : pc' = IF ok THEN "popup_consent_visible" ELSE "detail_except"
    /\ UNCHANGED <<session, call, page, product_page, locals, inflight, ret,
                   history, urlvars,
                   popup_log, steps, last_call, open_pages>>

\* Line 113: details["html_content"] = product_page.content().
DetailContent ==
    /\ pc = "detail_content"
    /\ popup_log' = <<>>
    /\ \E ok \in BOOLEAN :
          IF ok THEN /\ details' = [details EXCEPT !.html_content = Markup]
                     /\ pc' = "detail_finally"
          ELSE /\ pc' = "detail_except"
               /\ UNCHANGED details
    /\ UNCHANGED <<session, call, page, product_page, product_elements, i, title,
                   company_summary, product_url, products_data, inflight, ret,
                   history, urlvars,
                   steps, last_call, open_pages>>

\* Lines 116-119: the handler; with a page it takes a screenshot, and a
\* screenshot that raises leaves the handler by that exception.
DetailExcept ==
    /\ pc = "detail_except"
    /\ IF product_page = "open"
       THEN \E ok \in BOOLEAN :
               inflight' = IF ok THEN Nothing ELSE Raising("Error")
       ELSE inflight' = Nothing
    /\ pc' = "detail_finally"
    /\ UNCHANGED <<session, call, page, product_page, locals, ret, history, urlvars,
                   popup_log, steps, last_call, open_pages>>

\* The close placed at the end of the try block, not in a finally: it is
\* skipped when an exception is on its way.
DetailFinallyLeaks ==
    /\ pc = "detail_finally"
    /\ IF product_page = "open" /\ inflight.kind # "raise"
       THEN /\ product_page' = "closed"
            /\ open_pages' = open_pages \ {DetailPage(i)}
            /\ \E ok \in BOOLEAN : pc' = IF ok THEN "item_append" ELSE "item_except"
       ELSE /\ pc' = IF inflight.kind # "raise" THEN "item_append" ELSE "item_except"
            /\ UNCHANGED <<product_page, open_pages>>
    /\ inflight' = Nothing
    /\ UNCHANGED <<session, call, page, locals, ret, history, urlvars,
                   popup_log, steps, last_call>>

\* Lines 120-123: finally product_page.close() when there is a page; then
\* return details, or let the exception on its way go on to line 185.  A
\* close that raises reports a page that is already gone.
DetailFinally ==
    /\ pc = "detail_finally"
    /\ IF product_page = "open"
       THEN /\ product_page' = "closed"
            /\ open_pages' = open_pages \ {DetailPage(i)}
            /\ \E ok \in BOOLEAN :
                  pc' = IF ok /\ inflight.kind # "raise" THEN "item_append"
                        ELSE "item_except"
       ELSE /\ pc' = IF inflight.kind # "raise" THEN "item_append" ELSE "item_except"
            /\ UNCHANGED <<product_page, open_pages>>
    /\ inflight' = Nothing
    /\ UNCHANGED <<session, call, page, locals, ret, history, urlvars,
                   popup_log, steps, last_call>>

\* ------------------------------------------------------- the specifications

Next ==
    \/ AenterStart \/ AenterLaunch \/ BlockExit \/ AexitClose \/ AexitStop
    \/ search_by_text \/ search_by_image
    \/ Goto \/ Fill \/ Click \/ CameraClick \/ FileChooser \/ SetFiles \/ Settle
    \/ SearchExcept \/ SearchFinally
    \/ PopupConsentVisible \/ PopupConsentClick \/ PopupCloseVisible \/ PopupCloseClick
    \/ ParseWait \/ ParseScreenshot \/ ParseAll \/ LoopHead
    \/ ItemTitle \/ ItemCompany \/ ItemHref \/ ItemAppend \/ ItemExcept
    \/ DetailNewPage \/ DetailGoto \/ DetailContent \/ DetailExcept \/ DetailFinally

Spec == Init /\ [][Next]_vars

\* URL normalization on its own: any link value of UrlInputs is read from an
\* item, and lines 154-163 decide on it.
InitUrl ==
    /\ _playwright = "None"
    /\ _browser = "None"
    /\ driver = "not_started"
    /\ browser_proc = "not_launched"
    /\ scope = "constructed"
    /\ call = "none"
    /\ pc = "idle"
    /\ page = "None"
    /\ product_page = "None"
    /\ product_elements = <<>>
    /\ i = 0
    /\ title = <<>>
    /\ company_summary = <<>>
    /\ product_url = <<>>
    /\ details = DetailsInit(<<>>)
    /\ products_data = <<>>
    /\ inflight = Nothing
    /\ ret = Nothing
    /\ raised = {}
    /\ processed = {}
    /\ timed_out = FALSE
    /\ popup_log = <<>>
    /\ steps = <<>>
    /\ last_call = "none"
    /\ open_pages = {}
    /\ href_in \in UrlInputs
    /\ link_out = NoLink

DecideLink ==
    /\ ~link_out.done
    /\ link_out' = LET d == LinkDecision(href_in)
                   IN  [done |-> TRUE, keep |-> d.keep, product_url |-> d.product_url]
    /\ UNCHANGED <<session, call, pc, page, product_page, locals, inflight, ret,
                   history, href_in, popup_log, steps, last_call, open_pages>>

NextUrl == DecideLink

SpecUrl == InitUrl /\ [][NextUrl]_vars

\* ---------------------------------------------------------------- claims

\* A public call that got its results page has come back to its caller.
CallOver == pc = "idle" /\ ret.kind # "none" /\ page = "closed"

\* C1: with a session open, a search whose browser steps fail (navigation,
\* fill, click, file chooser, parsing, screenshot, page close) never raises:
\* every call that got its page gives its caller a list.
C1_NeverRaises == (scope = "body" /\ CallOver) => ret.kind = "return"

\* C2: every way out of the scoped session block ends with the browser
\* process terminated and the driver stopped.
C2_ReleasedOnEveryExit ==
    scope = "ended" => (driver # "running" /\ browser_proc # "running")

\* C3: a page request made before __aenter__ or after __aexit__ has run fails
\* with RuntimeError, and opens no page.
C3_NoSessionRuntimeError ==
    (scope \in {"constructed", "ended"} /\ ret.kind # "none")
        => (ret = Raising("RuntimeError") /\ page = "None")

\* C4: when no result item appears before the timeout of wait_for_selector,
\* the search returns an empty list and no error.
C4_TimeoutGivesEmptyList ==
    (pc = "idle" /\ ret.kind # "none" /\ timed_out) => ret = Returning(<<>>)

\* C5: a diagnostic screenshot that fails does not raise out of its step and
\* leaves the step's result as a succeeding screenshot leaves it: the handler
\* of a search and the parser's timeout branch return [], and the detail
\* extractor's handler goes on to return its record.
C5_ScreenshotNeverEscalates ==
    [][/\ pc = "search_except" => (pc' = "search_finally" /\ inflight' = Returning(<<>>))
       /\ pc = "parse_screenshot" => (pc' = "search_finally" /\ inflight' = Returning(<<>>))
       /\ pc = "detail_except" => (pc' = "detail_finally" /\ inflight' = Nothing)]_vars

\* C6: URL normalization of a link: "//..." becomes "https:" + link, "/..."
\* (one slash) becomes the site origin + link, "http://..." and "https://..."
\* pass unchanged, and every other non-empty link is rejected.
C6_UrlNormalization ==
    (link_out.done /\ href_in.present /\ href_in.text # <<>>) =>
        LET u == href_in.text
            kept(v) == link_out.keep /\ link_out.product_url = v
        IN  IF Len(u) >= 2 /\ u[1] = "/" /\ u[2] = "/" THEN kept(<<"h", "t", "t", "p", "s", ":">> \o u)
            ELSE IF u[1] = "/" THEN kept(SiteOrigin \o u)
            ELSE IF \/ StartsWith(u, <<"h", "t", "t", "p", ":", "/", "/">>)
                    \/ StartsWith(u, <<"h", "t", "t", "p", "s", ":", "/", "/">>)
                 THEN kept(u)
            ELSE ~link_out.keep

\* The document indices 0..n-1 in order.
Indices(n) == [j \in 1..n |-> j - 1]

Min(a, b) == IF a <= b THEN a ELSE b

\* The search gave its caller the list its parser built from a results page.
ParsedAndReturned == CallOver /\ ret.kind = "return" /\ product_elements # <<>>

\* C7: at most the first Cap (5) items in document order are processed: no
\* list holds more than 5 records or a record of an item of index 5 or
\* above, and of a page with more than 5 items exactly items 0..4 are
\* processed.
C7_ResultCap ==
    /\ Len(products_data) <= 5
    /\ Len(ret.value) <= 5
    /\ processed \subseteq 0..4
    /\ \A j \in 1..Len(products_data) :
          \E k \in 0..4 : /\ k < Len(product_elements)
                          /\ products_data[j].title = product_elements[k + 1].title
    /\ (ParsedAndReturned /\ Len(product_elements) > 5) => processed = 0..4

\* C7's case: a page of more than 5 items gave a full list of 5.
C7_Witness ==
    ParsedAndReturned /\ Len(product_elements) > 5 /\ Len(ret.value) = 5

\* The record the scenario expects of the item at index k with URL u.
Enriched(k, u) ==
    [title |-> TitleOf(k), company_summary |-> CompanyOf(k), product_page_url |-> u,
     url |-> u, full_description |-> NA, images |-> <<>>, html_content |-> Markup,
     price_per_unit |-> NA, company_years |-> NA, verified_supplier |-> NA]

\* The seven-item scenario was parsed with no step of it failing: no item
\* raised and every record returned holds its detail page's markup.
ScenarioRun ==
    /\ ParsedAndReturned
    /\ product_elements = ScenarioPage
    /\ raised = {}
    /\ \A j \in 1..Len(ret.value) : ret.value[j].html_content = Markup

\* C8 as stated: the scenario returns 6 records, those of items 0-4 and then
\* item 6 with its link made absolute.
C8_ScenarioSixRecords ==
    ScenarioRun =>
        ret.value = [j \in 1..6 |-> IF j <= 5 THEN Enriched(j - 1, AbsUrl(j - 1))
                                    ELSE Enriched(6, SiteOrigin \o RootRelUrl(6))]

\* C8 amended: the scenario returns 5 records, the enriched records of items
\* 0-4 in document order; items 5 and 6 lie past the cap and are not read.
C8_ScenarioFiveRecords ==
    ScenarioRun =>
        /\ ret.value = [j \in 1..5 |-> Enriched(j - 1, AbsUrl(j - 1))]
        /\ processed = 0..4

C8_Witness == ScenarioRun /\ Len(ret.value) = 5

\* The records the parser owes after `done` items: of the items 0..done-1
\* those whose loop body did not raise and whose link was kept, in order.
Owed(done) ==
    LET ok(k) == k \notin raised /\ LinkDecision(product_elements[k + 1].href).keep
    IN  SelectSeq(Indices(done), ok)

\* C9: an item whose processing raises is skipped and nothing else: the list
\* holds, in document order, exactly the records of the items handled so far
\* that did not raise and were not skipped, and the loop runs on to the end
\* of the page or to the cap whatever raised.
C9_PartialFailureIsolation ==
    /\ product_elements # <<>> =>
          /\ Len(products_data) = Len(Owed(i))
          /\ \A j \in 1..Len(products_data) :
                /\ products_data[j].title = product_elements[Owed(i)[j] + 1].title
                /\ products_data[j].product_page_url =
                      LinkDecision(product_elements[Owed(i)[j] + 1].href).product_url
    /\ (pc = "idle" /\ product_elements # <<>>) =>
          /\ i = Min(Len(product_elements), 5)
          /\ raised \subseteq 0..(i - 1)
    /\ ParsedAndReturned => ret.value = products_data

\* C9's case: an item raised between two items whose records were returned.
C9_Witness ==
    /\ ParsedAndReturned
    /\ \E k \in raised :
          \E a, b \in 1..Len(ret.value) :
              /\ a < b
              /\ \E ka \in 0..(k - 1) : ret.value[a].title = TitleOf(ka)
              /\ \E kb \in (k + 1)..4 : ret.value[b].title = TitleOf(kb)

\* C10: the detail extractor leaves no page of its own open: a detail page
\* is open only between its new_page and the extractor's finally.
C10_DetailPageClosed ==
    product_page = "open" =>
        pc \in {"detail_goto", "popup_consent_visible", "popup_consent_click",
                "popup_close_visible", "popup_close_click", "detail_content",
                "detail_except", "detail_finally"}

\* C10's case: the extractor raised after it had opened a page.
C10_Witness == pc = "item_except" /\ product_page = "closed"


\* C11: a detail page whose navigation or extraction failed does not make
\* the extractor raise: the extractor returns its record, with "N/A" for what
\* it did not extract, and the parser appends the item with those values.
C11_DetailFailureIsolated ==
    [][/\ (pc = "detail_finally" /\ details.html_content = NA) =>
              (pc' = "item_append" /\ details' = details)
       /\ pc = "item_append" =>
              /\ Len(products_data') = Len(products_data) + 1
              /\ products_data'[Len(products_data')].html_content = details.html_content
              /\ products_data'[Len(products_data')].title = title]_vars

\* The events of the dismisser's log that satisfy a test.
Events(kinds) == {n \in 1..Len(popup_log) : popup_log[n][1] \in kinds}

Logged(event) == \E n \in 1..Len(popup_log) : popup_log[n] = event

\* The dismisser has returned to its caller, which has not gone on yet.
PopupsReturned == pc \in {"fill", "camera", "detail_content"}

\* C12: the dismisser never raises: from each of its awaits it goes on inside
\* itself or returns to its caller, whatever the probe or the click did; and
\* when neither control is visible it clicks nothing.
C12_PopupsNeverRaise ==
    [][/\ pc \in PopupPcs => (pc' \in PopupPcs \/ pc' = AfterPopups)
       /\ (pc = "popup_close_visible" /\ pc' \notin PopupPcs) =>
              \A n \in 1..Len(popup_log') :
                  popup_log'[n][1] \notin {"click_consent", "click_close"}]_vars

\* C12's case: a click raised and the dismisser returned to its caller.
C12_Witness ==
    /\ pc = "detail_content"
    /\ popup_log = <<(<<"consent", "hidden">>), (<<"close", "visible">>),
                     (<<"click_close", "error">>)>>

\* A scheme-qualified absolute address.
Absolute(u) ==
    \/ StartsWith(u, <<"h", "t", "t", "p", ":", "/", "/">>)
    \/ StartsWith(u, <<"h", "t", "t", "p", "s", ":", "/", "/">>)

\* C13: every URL the detail extractor navigates to, and every
\* product_page_url of a record, begins with "http://" or "https://".
C13_AbsoluteUrls ==
    /\ pc = "detail_goto" => Absolute(product_url)
    /\ \A j \in 1..Len(products_data) : Absolute(products_data[j].product_page_url)
    /\ ret.kind = "return" =>
          \A j \in 1..Len(ret.value) : Absolute(ret.value[j].product_page_url)

\* What C14 says of the order of the dismisser: the consent control is probed
\* first, at most one control is clicked, and the close control is clicked
\* only after the consent control was found not visible.
PriorityOrder ==
    /\ popup_log # <<>> => popup_log[1][1] = "consent"
    /\ Cardinality(Events({"click_consent", "click_close"})) <= 1
    /\ Events({"click_close"}) # {} => Logged(<<"consent", "hidden">>)

\* C14 as stated: the priority order, and a consent control whose dismissal
\* failed is followed by a try of the close control.
C14_CloseTriedAfterFailure ==
    /\ PriorityOrder
    /\ (PopupsReturned /\ Logged(<<"click_consent", "error">>))
          => Events({"close"}) # {}

\* C14 amended: the priority order, and the close control is probed only
\* after the consent control was found not visible: once the consent control
\* was clicked, or its probe or its click raised, the dismisser ends without
\* a try of the close control.
C14_CloseOnlyWhenConsentHidden ==
    /\ PriorityOrder
    /\ Events({"close", "click_close"}) # {} =>
          /\ popup_log[1] = <<"consent", "hidden">>
          /\ Events({"click_consent"}) = {}
    /\ (Logged(<<"consent", "error">>) \/ Events({"click_consent"}) # {}) =>
          Events({"close", "click_close"}) = {}
    /\ pc = "popup_close_visible" => popup_log = <<(<<"consent", "hidden">>)>>

\* C14's case: the click on the consent control raised and the dismisser
\* returned.
C14_Witness ==
    /\ PopupsReturned
    /\ popup_log = <<(<<"consent", "visible">>), (<<"click_consent", "error">>)>>

\* The detail pages open in the browser.
OpenDetailPages == {pg \in open_pages : pg[1] = "detail"}

\* C15: at most one detail page is open at a time, it is the page of the
\* item the loop is at, and none is open when the next one is asked for.
C15_OneDetailPageAtATime ==
    /\ Cardinality(OpenDetailPages) <= 1
    /\ OpenDetailPages \subseteq {DetailPage(i)}
    /\ pc \in {"loop_head", "item_title", "item_company", "item_href", "detail_new_page"}
          => OpenDetailPages = {}

\* C15's case: the detail page of item 1 is open after that of item 0 was
\* opened, read and closed.
C15_Witness ==
    /\ DetailPage(1) \in open_pages
    /\ Len(products_data) = 1
    /\ products_data[1].html_content = Markup

\* The steps of search_by_text in the order of lines 228-250.
TextOrder == <<"goto", "popups", "fill", "click", "settle", "parse">>

IsPrefix(a, b) == Len(a) <= Len(b) /\ SubSeq(b, 1, Len(a)) = a

\* C16: search_by_text completes its steps in the order navigate, dismiss,
\* fill, click, settle, parse; the parser is not entered before the settle
\* wait has elapsed; and when navigation, fill or click failed nothing is
\* parsed, no detail page is asked for and a list that is returned is empty.
C16_TextSearchOrder ==
    last_call = "text" =>
        /\ IsPrefix(steps, TextOrder)
        /\ pc = "parse_wait" => steps = SubSeq(TextOrder, 1, 5)
        /\ (product_elements # <<>> \/ processed # {} \/ product_page # "None"
              \/ OpenDetailPages # {} \/ timed_out) => steps = TextOrder
        /\ (pc = "idle" /\ page = "closed" /\ Len(steps) < 4) =>
              /\ product_elements = <<>> /\ processed = {}
              /\ product_page = "None"
              /\ ret.kind = "return" => ret.value = <<>>

\* C16's case: the fill failed and the search returned [].
C16_Witness ==
    /\ last_call = "text" /\ pc = "idle"
    /\ steps = <<"goto", "popups">>
    /\ ret = Returning(<<>>)

\* C17: when a search has returned or raised, no page it opened is open: as
\* many pages are open as before the call, which is none.
C17_ResultsPageClosed ==
    /\ pc = "idle" => open_pages = {}
    /\ ResultsPage \in open_pages <=> page = "open"

\* C17's case: a search that had opened its page raised.
C17_Witness ==
    /\ scope = "body" /\ pc = "idle"
    /\ page = "closed" /\ ret.kind = "raise"

\* C18: the merge of line 178 leaves the summary fields alone: each record
\* holds the title and the company summary read from its item and, as
\* product_page_url, the normalized link, which is the URL navigated to.
C18_MergeKeepsSummary ==
    /\ product_elements # <<>> =>
          \A j \in 1..Len(products_data) :
              j <= Len(Owed(i)) /\
              LET item == product_elements[Owed(i)[j] + 1]
                  rec == products_data[j]
              IN  /\ rec.title = item.title
                  /\ rec.company_summary = item.company_summary
                  /\ rec.product_page_url = LinkDecision(item.href).product_url
                  /\ rec.url = rec.product_page_url
    /\ pc = "detail_goto" =>
          product_url = LinkDecision(product_elements[i + 1].href).product_url

\* C18's case: a list with a record whose details were extracted and a
\* record whose detail extraction failed.
C18_Witness ==
    /\ ParsedAndReturned
    /\ \E a, b \in 1..Len(ret.value) :
          /\ ret.value[a].html_content = Markup
          /\ ret.value[b].html_content = NA

====
